---------------------------- MODULE Spec2Model ----------------------------
(***************************************************************************)
(* Model of main.py of tour_guide_API: the travel budget estimator         *)
(* (trip_logic), the great-circle distance (haversine), the bounding box   *)
(* prefilter (bounding_box), the range filter and ranker (filter_places)   *)
(* and the /recommend-cities handler (recommend_cities) over the catalog   *)
(* data frame df.                                                          *)
(*                                                                         *)
(* Numbers.  The program computes in binary floating point; the model      *)
(* computes in integers:                                                   *)
(*   - coordinates are whole degrees, latitudes strictly between the poles;*)
(*   - sines and cosines are fixed-point values with 4 decimals, read from *)
(*     a table of sin at every half degree;                                *)
(*   - distances are whole kilometres (rounded down);                      *)
(*   - the bounding box keeps its half-widths as exact fractions.          *)
(* From the origins used here the model's haversine is within 4 km of the *)
(* floating-point one (the error grows towards the poles, where the       *)
(* cosines have few significant digits).                                   *)
(***************************************************************************)
EXTENDS Integers, Sequences, FiniteSets

VARIABLES
    df,           \* the catalog loaded at startup: [columns, rows]
    op,           \* the operation that ran last
    args,         \* its arguments
    ret,          \* what it returned (or the exception it raised)
    candidates,   \* filter_places' local frame after the box step and apply
    filtered_df   \* filter_places' local frame after the band step and sort

vars == <<df, op, args, ret, candidates, filtered_df>>

-----------------------------------------------------------------------------
(* Bounds of the model *)

\* largest number of rows of a catalog
MaxRows == 7

\* largest trip length in days tried (the smallest is -1)
MaxDays == 4

-----------------------------------------------------------------------------
(* Program constants *)

R == 6371
KmPerDegree == 111
HoursPerDay == 24
DefaultSpeed == 50
DefaultSleep == 6
DefaultMeal == 3
DefaultBuffer == 2
RelaxedSleep == 4
DefaultTolerance == 150
ResultLimit == 5

-----------------------------------------------------------------------------
(* math.sin, math.cos, math.sqrt, math.atan2, math.radians in fixed point *)

\* SinHalfDeg[k + 1] = round(10000 * sin(k / 2 degrees)), k = 0 .. 180
SinHalfDeg ==
    <<0, 87, 175, 262, 349, 436, 523, 610, 698, 785, 872, 958, 1045, 1132,
      1219, 1305, 1392, 1478, 1564, 1650, 1736, 1822, 1908, 1994, 2079, 2164,
      2250, 2334, 2419, 2504, 2588, 2672, 2756, 2840, 2924, 3007, 3090, 3173,
      3256, 3338, 3420, 3502, 3584, 3665, 3746, 3827, 3907, 3987, 4067, 4147,
      4226, 4305, 4384, 4462, 4540, 4617, 4695, 4772, 4848, 4924, 5000, 5075,
      5150, 5225, 5299, 5373, 5446, 5519, 5592, 5664, 5736, 5807, 5878, 5948,
      6018, 6088, 6157, 6225, 6293, 6361, 6428, 6494, 6561, 6626, 6691, 6756,
      6820, 6884, 6947, 7009, 7071, 7133, 7193, 7254, 7314, 7373, 7431, 7490,
      7547, 7604, 7660, 7716, 7771, 7826, 7880, 7934, 7986, 8039, 8090, 8141,
      8192, 8241, 8290, 8339, 8387, 8434, 8480, 8526, 8572, 8616, 8660, 8704,
      8746, 8788, 8829, 8870, 8910, 8949, 8988, 9026, 9063, 9100, 9135, 9171,
      9205, 9239, 9272, 9304, 9336, 9367, 9397, 9426, 9455, 9483, 9511, 9537,
      9563, 9588, 9613, 9636, 9659, 9681, 9703, 9724, 9744, 9763, 9781, 9799,
      9816, 9833, 9848, 9863, 9877, 9890, 9903, 9914, 9925, 9936, 9945, 9954,
      9962, 9969, 9976, 9981, 9986, 9990, 9994, 9997, 9998, 10000, 10000>>

\* the fixed-point one: sin(90 degrees)
Unit == SinHalfDeg[181]

Abs(x) == IF x < 0 THEN -x ELSE x

Min(x, y) == IF x <= y THEN x ELSE y

\* math.sin of h half degrees (any integer h), times Unit
SinH(h) ==
    LET m == h % 720
    IN  IF m <= 180 THEN SinHalfDeg[m + 1]
        ELSE IF m <= 360 THEN SinHalfDeg[360 - m + 1]
        ELSE IF m <= 540 THEN -SinHalfDeg[m - 360 + 1]
        ELSE -SinHalfDeg[720 - m + 1]

\* math.cos of h half degrees, times Unit
CosH(h) == SinH(h + 180)

\* math.sqrt: the integer square root, by bisection on lo <= sqrt(n) < hi
RECURSIVE SqrtBetween(_, _, _)
SqrtBetween(n, lo, hi) ==
    IF hi - lo <= 1 THEN lo
    ELSE LET mid == (lo + hi) \div 2
         IN  IF mid * mid <= n THEN SqrtBetween(n, mid, hi)
             ELSE SqrtBetween(n, lo, mid)

Sqrt(n) == SqrtBetween(n, 0, Unit + 1)

\* the largest k in lo .. hi - 1 with SinHalfDeg[k + 1] <= s, by bisection
RECURSIVE TableIndex(_, _, _)
TableIndex(s, lo, hi) ==
    IF hi - lo <= 1 THEN lo
    ELSE LET mid == (lo + hi) \div 2
         IN  IF SinHalfDeg[mid + 1] <= s THEN TableIndex(s, mid, hi)
             ELSE TableIndex(s, lo, mid)

\* the angle, in hundredths of a half degree, whose sine is s / Unit
\* (0 <= s <= Unit): table lookup with linear interpolation
ArcSin(s) ==
    LET k == TableIndex(s, 0, 181)
    IN  IF k = 180 THEN 100 * k
        ELSE 100 * k + (100 * (s - SinHalfDeg[k + 1]))
                           \div (SinHalfDeg[k + 2] - SinHalfDeg[k + 1])

\* math.atan2(y, x) for y, x >= 0 with y^2 + x^2 = Unit^2, in hundredths of
\* a half degree: the angle is read from the smaller of the two arguments
ATan2(y, x) == IF y <= x THEN ArcSin(y) ELSE 18000 - ArcSin(x)

-----------------------------------------------------------------------------
(* haversine: the distance in whole km between two whole-degree points *)

haversine(lat1, lon1, lat2, lon2) ==
    LET sdlat == Abs(SinH(lat2 - lat1))     \* sin(dlat / 2)
        sdlon == Abs(SinH(lon2 - lon1))     \* sin(dlon / 2)
        cc    == (CosH(2 * lat1) * CosH(2 * lat2)) \div Unit
        a     == Min(sdlat * sdlat + ((cc * sdlon) \div Unit) * sdlon,
                     Unit * Unit)           \* times Unit^2
        half  == ATan2(Sqrt(a), Sqrt(Unit * Unit - a))
        c     == (half * 17453) \div 1000   \* 2 * atan2(..), in 1e-5 radians
    IN  (R * c) \div 100000

-----------------------------------------------------------------------------
(* trip_logic: the travel budget.  travel_hours = (2 / 3) * usable is kept *)
(* exact until the end: max_distance is 2 * usable * speed / 3 rounded     *)
(* down to a whole km, which keeps its sign.  explore_hours is computed    *)
(* and never used.                                                         *)

\* trip_logic with the relaxed adjustment subtracted instead of added
trip_logic_subtracting(days, speed, sleep, meal, buffer, compromise) ==
    LET total_hours == days * HoursPerDay
        usable0     == total_hours - (days * (sleep + meal + buffer))
        usable      == IF compromise THEN usable0 - (sleep - RelaxedSleep)
                       ELSE usable0
    IN  [max_distance |-> (2 * usable * speed) \div 3, usable |-> usable]

trip_logic(days, speed, sleep, meal, buffer, compromise) ==
    LET total_hours == days * HoursPerDay
        usable0     == total_hours - (days * (sleep + meal + buffer))
        usable      == IF compromise THEN usable0 + (sleep - RelaxedSleep)
                       ELSE usable0
    IN  [max_distance |-> (2 * usable * speed) \div 3, usable |-> usable]

-----------------------------------------------------------------------------
(* bounding_box: the box around (lat, lon).  delta_lat = distance_km / 111 *)
(* and delta_lon = distance_km / (111 * cos(lat)) are fractions num / den  *)
(* with den > 0 (cos(lat) > 0 strictly between the poles).                 *)

bounding_box(lat, lon, distance_km) ==
    [lat |-> lat, lon |-> lon,
     dlat_num |-> distance_km,        dlat_den |-> KmPerDegree,
     dlon_num |-> distance_km * Unit, dlon_den |-> KmPerDegree * CosH(2 * lat)]

\* min_lat <= Latitude <= max_lat and min_lon <= Longitude <= max_lon,
\* each comparison multiplied through by the positive denominator
InBox(box, row) ==
    /\ (row.Latitude - box.lat) * box.dlat_den >= -box.dlat_num
    /\ (row.Latitude - box.lat) * box.dlat_den <= box.dlat_num
    /\ (row.Longitude - box.lon) * box.dlon_den >= -box.dlon_num
    /\ (row.Longitude - box.lon) * box.dlon_den <= box.dlon_num

-----------------------------------------------------------------------------
(* filter_places *)

\* haversine on the coordinates the model uses, computed once
Latitudes == {19, 44, 45, 60, 64, 76}
Longitudes == {0, 25, 30, 60, 63, 64, 73}
haversine_km ==
    [lat1 \in Latitudes, lon1 \in Longitudes,
     lat2 \in Latitudes, lon2 \in Longitudes |->
        haversine(lat1, lon1, lat2, lon2)]

\* the row with the column distance_km added (candidates.apply, axis = 1)
WithDistance(row, lat_x, lon_x) ==
    [Name |-> row.Name, City |-> row.City,
     Latitude |-> row.Latitude, Longitude |-> row.Longitude,
     distance_km |-> haversine_km[lat_x, lon_x, row.Latitude, row.Longitude]]

\* the rows of the frame with f applied to each
MapRows(rows, f(_)) == [i \in 1..Len(rows) |-> f(rows[i])]

\* Step 1 and 2: the copy of the rows inside the box, with their distance
BoxStep(rows, lat_x, lon_x, radius) ==
    LET box == bounding_box(lat_x, lon_x, radius)
    IN  MapRows(SelectSeq(rows, LAMBDA r : InBox(box, r)),
                LAMBDA r : WithDistance(r, lat_x, lon_x))

\* Step 3: the rows with min_dist <= distance_km <= max_dist
BandStep(rows, max_distance_km, tolerance) ==
    LET min_dist == max_distance_km - tolerance
        max_dist == max_distance_km + tolerance
    IN  SelectSeq(rows, LAMBDA r : /\ r.distance_km >= min_dist
                                   /\ r.distance_km <= max_dist)

\* x put into the sorted rows s.  sort_values' default sort is not stable:
\* rows of equal distance come out in frame order (tie = FALSE) or in the
\* opposite order (tie = TRUE)
InsertRow(s, x, tie) ==
    LET k == Cardinality({i \in 1..Len(s) :
                 \/ s[i].distance_km < x.distance_km
                 \/ (~tie /\ s[i].distance_km = x.distance_km)})
    IN  SubSeq(s, 1, k) \o <<x>> \o SubSeq(s, k + 1, Len(s))

\* filtered_df.sort_values(by = 'distance_km')
RECURSIVE sort_values(_, _)
sort_values(rows, tie) ==
    IF rows = <<>> THEN <<>>
    ELSE InsertRow(sort_values(SubSeq(rows, 1, Len(rows) - 1), tie),
                   rows[Len(rows)], tie)

\* row["City"] not in city
NotIn(c, city) == \A j \in 1..Len(city) : city[j] # c

\* the loop without its membership test: every row's locality is appended
RECURSIVE CollectEveryCity(_, _, _)
CollectEveryCity(rows, i, city) ==
    IF i > Len(rows) THEN city
    ELSE CollectEveryCity(rows, i + 1, Append(city, rows[i].City))

\* the loop over filtered_df.iterrows() from row i on
RECURSIVE CollectCities(_, _, _)
CollectCities(rows, i, city) ==
    IF i > Len(rows) THEN city
    ELSE CollectCities(rows, i + 1,
                       IF NotIn(rows[i].City, city)
                       THEN Append(city, rows[i].City) ELSE city)

\* city[0:5]
Head5(city) == SubSeq(city, 1, Min(ResultLimit, Len(city)))

\* filter_places without .copy(), its distance column written to the frame
\* it was handed
filter_places_in_place(frame, lat_x, lon_x, max_distance_km, tolerance, tie) ==
    IF ~({"Latitude", "Longitude"} \subseteq frame.columns)
    THEN [status |-> "KeyError", city |-> <<>>, frame |-> frame,
          candidates |-> <<>>, filtered_df |-> <<>>]
    ELSE
    LET cand == BoxStep(frame.rows, lat_x, lon_x,
                        max_distance_km + tolerance)
        filt == sort_values(BandStep(cand, max_distance_km, tolerance), tie)
        city == IF {"City", "Name"} \subseteq frame.columns
                THEN CollectCities(filt, 1, <<>>)
                ELSE <<>>
    IN  [status |-> "ok", city |-> Head5(city),
         frame |-> [columns |-> frame.columns \cup {"distance_km"},
                    rows |-> frame.rows],
         candidates |-> cand, filtered_df |-> filt]

\* The call filter_places(frame, lat_x, lon_x, max_distance_km, tolerance):
\* what it raises or returns, its two local frames, and the frame it was
\* handed as the call leaves it (the filter works on a copy).
filter_places(frame, lat_x, lon_x, max_distance_km, tolerance, tie) ==
    IF ~({"Latitude", "Longitude"} \subseteq frame.columns)
    THEN [status |-> "KeyError", city |-> <<>>, frame |-> frame,
          candidates |-> <<>>, filtered_df |-> <<>>]
    ELSE
    LET cand == BoxStep(frame.rows, lat_x, lon_x,
                        max_distance_km + tolerance)
        filt == sort_values(BandStep(cand, max_distance_km, tolerance), tie)
        city == IF {"City", "Name"} \subseteq frame.columns
                THEN CollectCities(filt, 1, <<>>)
                ELSE <<>>
    IN  [status |-> "ok", city |-> Head5(city), frame |-> frame,
         candidates |-> cand, filtered_df |-> filt]

-----------------------------------------------------------------------------
(* get_lat_lon: the geocoder is an external service; it knows two places   *)
(* and returns None for any other name                                     *)

None == <<>>

get_lat_lon(place_name) ==
    IF place_name = "Saint Petersburg" THEN <<60, 30>>
    ELSE IF place_name = "Mumbai" THEN <<19, 73>>
    ELSE None

-----------------------------------------------------------------------------
(* The catalogs and the requests tried *)

AllColumns == {"Name", "City", "Latitude", "Longitude"}

\* the column sets of the CSV file tried: complete, without the locality
\* column, without the name column, without a coordinate column
ColumnSets ==
    {AllColumns, AllColumns \ {"City"}, AllColumns \ {"Name"},
     AllColumns \ {"Latitude"}}

\* the places a catalog is made of, in file order
Pool ==
    <<[Name |-> "p1", City |-> "A", Latitude |-> 64, Longitude |-> 64],
      [Name |-> "p2", City |-> "A", Latitude |-> 60, Longitude |-> 63],
      [Name |-> "p3", City |-> "B", Latitude |-> 44, Longitude |-> 25],
      [Name |-> "p4", City |-> "C", Latitude |-> 60, Longitude |-> 0],
      [Name |-> "p5", City |-> "D", Latitude |-> 60, Longitude |-> 60],
      [Name |-> "p6", City |-> "E", Latitude |-> 45, Longitude |-> 30],
      [Name |-> "p7", City |-> "F", Latitude |-> 76, Longitude |-> 30],
      [Name |-> "p8", City |-> "E", Latitude |-> 44, Longitude |-> 30]>>

Names == {Pool[i].Name : i \in 1..Len(Pool)}

\* a catalog holds any of the places, at most MaxRows of them
Catalogs ==
    {[columns |-> cols,
      rows |-> SelectSeq(Pool, LAMBDA r : r.Name \in chosen)] :
        cols \in ColumnSets,
        chosen \in {c \in SUBSET Names : Cardinality(c) <= MaxRows}}

Locations == {"Saint Petersburg", "Mumbai", "Atlantis"}
Origins == {<<60, 30>>, <<19, 73>>}
Days == -1..MaxDays
Speeds == {0, DefaultSpeed}
Distances == {1653, 1778, 1779, 1803}
Tolerances == {0, DefaultTolerance}
SleepHours == {0, 3, RelaxedSleep, DefaultSleep, 20}
MealHours == {0, DefaultMeal, 11}
BufferHours == {0, DefaultBuffer, 12}

-----------------------------------------------------------------------------
(* The operations *)

Init ==
    /\ df \in Catalogs
    /\ op = "idle"
    /\ args = <<>>
    /\ ret = <<>>
    /\ candidates = <<>>
    /\ filtered_df = <<>>

\* a direct call filter_places(df, lat_x, lon_x, max_distance_km, tolerance)
filter_places_call(lat_x, lon_x, max_distance_km, tolerance, tie) ==
    LET r == filter_places(df, lat_x, lon_x, max_distance_km, tolerance, tie)
    IN  /\ op = "idle"
        /\ op' = "filter_places"
        /\ args' = [lat_x |-> lat_x, lon_x |-> lon_x,
                    max_distance_km |-> max_distance_km,
                    tolerance |-> tolerance]
        /\ df' = r.frame
        /\ candidates' = r.candidates
        /\ filtered_df' = r.filtered_df
        /\ ret' = [status |-> r.status, city |-> r.city]

\* POST /recommend-cities
recommend_cities(user_location, trip_days, speed, tie) ==
    LET coords == get_lat_lon(user_location)
        budget == trip_logic(trip_days, speed, DefaultSleep, DefaultMeal,
                             DefaultBuffer, FALSE)
        r      == filter_places(df, coords[1], coords[2],
                                budget.max_distance, DefaultTolerance, tie)
        request == [user_location |-> user_location,
                    trip_days |-> trip_days, speed |-> speed]
    IN  /\ op = "idle"
        /\ op' = "recommend_cities"
        /\ args' = request
        /\ IF coords = None
           THEN /\ ret' = [status |-> "ok", error |-> "Location not found",
                           calls |-> <<"get_lat_lon">>]
                /\ UNCHANGED <<df, candidates, filtered_df>>
           ELSE /\ df' = r.frame
                /\ candidates' = r.candidates
                /\ filtered_df' = r.filtered_df
                /\ ret' = IF r.status = "ok"
                          THEN [status |-> "ok", error |-> "",
                                max_distance_km |-> budget.max_distance,
                                recommended_cities |-> Head5(r.city),
                                calls |-> <<"get_lat_lon", "trip_logic",
                                            "filter_places">>]
                          ELSE [status |-> r.status, error |-> "",
                                calls |-> <<"get_lat_lon", "trip_logic",
                                            "filter_places">>]

\* a direct call trip_logic(days, speed, sleep, meal, buffer, compromise)
trip_logic_call(days, speed, sleep, meal, buffer, compromise) ==
    LET r == trip_logic(days, speed, sleep, meal, buffer, compromise)
    IN  /\ op = "idle"
        /\ op' = "trip_logic"
        /\ args' = [days |-> days, speed |-> speed, sleep |-> sleep,
                    meal |-> meal, buffer |-> buffer,
                    compromise |-> compromise]
        /\ ret' = [status |-> "ok", max_distance |-> r.max_distance,
                   usable |-> r.usable]
        /\ UNCHANGED <<df, candidates, filtered_df>>

\* the call has returned: its arguments, locals and result are gone and the
\* next call can be made
Return ==
    /\ op # "idle"
    /\ op' = "idle"
    /\ args' = <<>>
    /\ ret' = <<>>
    /\ candidates' = <<>>
    /\ filtered_df' = <<>>
    /\ UNCHANGED df

FilterNext ==
    \E o \in Origins, d \in Distances, t \in Tolerances, tie \in BOOLEAN :
        filter_places_call(o[1], o[2], d, t, tie)

RecommendNext ==
    \E loc \in Locations, days \in Days, speed \in Speeds, tie \in BOOLEAN :
        recommend_cities(loc, days, speed, tie)

TripNext ==
    \E days \in Days, speed \in Speeds, sleep \in SleepHours,
       meal \in MealHours, buffer \in BufferHours, compromise \in BOOLEAN :
        trip_logic_call(days, speed, sleep, meal, buffer, compromise)

\* the service: any sequence of requests and direct calls over the catalog
Next == FilterNext \/ RecommendNext \/ Return

Spec == Init /\ [][Next]_vars

\* the travel budget estimator alone, over one catalog
InitTrip ==
    /\ df = [columns |-> AllColumns, rows |-> Pool]
    /\ op = "idle"
    /\ args = <<>>
    /\ ret = <<>>
    /\ candidates = <<>>
    /\ filtered_df = <<>>

NextTrip == TripNext \/ Return

SpecTrip == InitTrip /\ [][NextTrip]_vars

-----------------------------------------------------------------------------
(* What the last operation did, read from the state *)

\* the last operation ran filter_places to its return statement
FilterReturned ==
    \/ op = "filter_places" /\ ret.status = "ok"
    \/ op = "recommend_cities" /\ ret.status = "ok" /\ ret.error = ""

\* the arguments filter_places was called with
FilterArgs ==
    IF op = "filter_places" THEN args
    ELSE LET coords == get_lat_lon(args.user_location)
         IN  [lat_x |-> coords[1], lon_x |-> coords[2],
              max_distance_km |-> ret.max_distance_km,
              tolerance |-> DefaultTolerance]

\* the list the caller got
Returned ==
    IF op = "filter_places" THEN ret.city ELSE ret.recommended_cities

\* the exact distance of a catalog row from the origin of the call
DistanceOf(row) ==
    haversine_km[FilterArgs.lat_x, FilterArgs.lon_x,
                 row.Latitude, row.Longitude]

MinDist == FilterArgs.max_distance_km - FilterArgs.tolerance
MaxDist == FilterArgs.max_distance_km + FilterArgs.tolerance

\* the catalog rows whose exact distance lies in the band
InBandRows ==
    {i \in 1..Len(df.rows) :
        /\ DistanceOf(df.rows[i]) >= MinDist
        /\ DistanceOf(df.rows[i]) <= MaxDist}

InBandCities == {df.rows[i].City : i \in InBandRows}

\* the distance of the nearest in-band place of a locality
Nearest(c) ==
    LET ds == {DistanceOf(df.rows[i]) :
                  i \in {j \in InBandRows : df.rows[j].City = c}}
    IN  CHOOSE d \in ds : \A e \in ds : d <= e

NoDuplicates(seq) ==
    \A i, j \in 1..Len(seq) : i # j => seq[i] # seq[j]

Range(seq) == {seq[i] : i \in 1..Len(seq)}

-----------------------------------------------------------------------------
(* The claims *)

\* C1: the list filter_places returns, and the recommended_cities list of
\* recommend_cities, hold no locality twice and at most ResultLimit entries.
C1_DistinctAndCapped ==
    FilterReturned =>
        /\ NoDuplicates(Returned)
        /\ Len(Returned) <= ResultLimit

\* C1 witness: a request whose band holds two places of one locality and
\* more than ResultLimit localities, answered with ResultLimit of them.
C1_Witness ==
    /\ op = "recommend_cities"
    /\ FilterReturned
    /\ ~NoDuplicates([i \in 1..Len(filtered_df) |-> filtered_df[i].City])
    /\ Cardinality({filtered_df[i].City : i \in 1..Len(filtered_df)})
           > ResultLimit
    /\ Len(Returned) = ResultLimit

\* C2 as stated: every returned locality has a catalog place whose exact
\* distance is in [target - tolerance, target + tolerance]; a place at
\* exactly target + tolerance is retained; no retained place lies beyond
\* target + tolerance.
C2_BandInclusive ==
    FilterReturned =>
        /\ Range(Returned) \subseteq InBandCities
        /\ \A i \in 1..Len(df.rows) :
               DistanceOf(df.rows[i]) = MaxDist =>
                   \E k \in 1..Len(filtered_df) :
                       filtered_df[k].Name = df.rows[i].Name
        /\ \A k \in 1..Len(filtered_df) : filtered_df[k].distance_km <= MaxDist

\* C3 as stated: the returned localities are in ascending order of the
\* distance of their nearest in-band place, and an in-band locality that
\* the cap leaves out is no nearer than any returned one.
C3_AscendingByNearest ==
    (FilterReturned /\ Range(Returned) \subseteq InBandCities) =>
        /\ \A i, j \in 1..Len(Returned) :
               i < j => Nearest(Returned[i]) <= Nearest(Returned[j])
        /\ Len(Returned) = ResultLimit =>
               \A c \in InBandCities \ Range(Returned) :
                   \A i \in 1..Len(Returned) :
                       Nearest(Returned[i]) <= Nearest(c)

\* C4 as stated, on inputs that meet the estimator's precondition (days >= 1
\* and speed > 0): trip_logic never returns a negative max_distance; when
\* the usable hours are negative it reports a domain error instead.
C4_NegativeBudgetRejected ==
    (op = "trip_logic" /\ args.days >= 1 /\ args.speed > 0) =>
        /\ ret.status = "ok" => ret.max_distance >= 0
        /\ ret.usable < 0 => ret.status = "DomainError"

\* C5 as stated: a request with trip_days <= 0 or speed <= 0 is rejected
\* with a domain error and never reaches filter_places.
C5_NonPositiveRejected ==
    (op = "recommend_cities" /\ (args.trip_days <= 0 \/ args.speed <= 0)) =>
        /\ \A i \in 1..Len(ret.calls) : ret.calls[i] # "filter_places"
        /\ get_lat_lon(args.user_location) # None => ret.status = "DomainError"

\* the usable hours of the same inputs with compromise = False
UsableUnrelaxed ==
    trip_logic(args.days, args.speed, args.sleep, args.meal, args.buffer,
               FALSE).usable

\* C6 as stated: for all inputs the usable hours with compromise = True are
\* at least those with compromise = False, and equal only when sleep = 4.
C6_RelaxedNeverLess ==
    (op = "trip_logic" /\ args.compromise) =>
        /\ ret.usable >= UsableUnrelaxed
        /\ ret.usable = UsableUnrelaxed => args.sleep = RelaxedSleep

\* C6 amended: for sleep >= 4 the usable hours with compromise = True are at
\* least those with compromise = False, and equal only when sleep = 4.
C6_RelaxedNeverLessFromFour ==
    (op = "trip_logic" /\ args.compromise /\ args.sleep >= RelaxedSleep) =>
        /\ ret.usable >= UsableUnrelaxed
        /\ ret.usable = UsableUnrelaxed => args.sleep = RelaxedSleep

\* C6 witness: a relaxed call with more than 4 hours of sleep that gained
\* usable hours.
C6_Witness ==
    /\ op = "trip_logic"
    /\ args.compromise
    /\ args.sleep > RelaxedSleep
    /\ args.days >= 1
    /\ ret.usable > UsableUnrelaxed

\* C7 as stated: with days >= 1, speed > 0, non-negative sleep, meal and
\* buffer hours summing to less than 24, and either value of compromise, the
\* max_distance returned is non-negative.
C7_ValidInputsNonNegative ==
    (/\ op = "trip_logic"
     /\ args.days >= 1
     /\ args.speed > 0
     /\ args.sleep >= 0 /\ args.meal >= 0 /\ args.buffer >= 0
     /\ args.sleep + args.meal + args.buffer < HoursPerDay) =>
        ret.max_distance >= 0

\* C8 as stated: when the catalog lacks City, Latitude or Longitude,
\* filter_places fails with a schema error and returns no normal result.
C8_SchemaError ==
    (/\ op \in {"filter_places", "recommend_cities"}
     /\ op = "recommend_cities" => get_lat_lon(args.user_location) # None
     /\ ~({"City", "Latitude", "Longitude"} \subseteq df.columns)) =>
        ret.status # "ok"

C10_PrefilterSound ==
    (FilterReturned /\ MaxDist > 0) =>
        \A i \in 1..Len(df.rows) :
            DistanceOf(df.rows[i]) <= MaxDist =>
                /\ InBox(bounding_box(FilterArgs.lat_x, FilterArgs.lon_x,
                                      MaxDist), df.rows[i])
                /\ \E k \in 1..Len(candidates) :
                       candidates[k].Name = df.rows[i].Name

=============================================================================
